---- MODULE Spec2Model ----
(***************************************************************************)
(* Model of the AWS resource monitor (src/server.js): the on-demand fetch  *)
(* (GET /api/resources), the scan (GET /api/scan and the daily cron job),  *)
(* the manual resend (GET /api/send-email) and the notifier.               *)
(*                                                                         *)
(* Units.  CPU values are whole percents.  Times are whole days.  Money is *)
(* counted in units of 1e-7 USD, so that every rate of the source is an    *)
(* integer (0.08 USD per GB = 800000 units).                               *)
(*                                                                         *)
(* External services (EC2, S3, RDS, Lambda, CloudWatch, Pricing, SMTP) are *)
(* the environment: every answer they give is drawn from a finite set at   *)
(* the step that issues the call, and every call may fail.                 *)
(***************************************************************************)
EXTENDS Integers, Sequences, FiniteSets, TLC

(***************************************************************************)
(* Bounds of the model.                                                    *)
(***************************************************************************)
\* The provider hands out at most this many resource records in a behaviour.
MaxRecords == 1
\* The clock reading (in days) at which the handlers run.
Now == 100
\* A listing is split over at most this many pages of at most this many records.
MaxPages == 2
MaxPageSize == 2
\* paginateDescribe is followed for at most this many requests.
MaxRequests == 4
\* The debounced function is called at most this many times, the last time
\* not later than this reading of the dashboard's clock.
MaxCalls == 3
MaxTime == 4

(***************************************************************************)
(* Program constants.                                                      *)
(***************************************************************************)
ThirtyDays == 30
IdleCpu == 1
UnderutilizedCpu == 10
HoursPerMonth == 730
DefaultGbRate == 1000000
S3GbRate == 230000
LambdaRequestRate == 2
LambdaGbSecondRate == 166667
LambdaDays == 30

Services == <<"ec2", "ebs", "s3", "rds", "lambda">>

\* regionToLocation: the regions that have a pricing location name.
regionToLocation ==
  [r \in {"us-east-1", "us-east-2", "us-west-1", "us-west-2", "eu-west-1"} |->
     CASE r = "us-east-1" -> "US East (N. Virginia)"
       [] r = "us-east-2" -> "US East (Ohio)"
       [] r = "us-west-1" -> "US West (N. California)"
       [] r = "us-west-2" -> "US West (Oregon)"
       [] r = "eu-west-1" -> "EU (Ireland)"]

\* regionToLocation[region] || ''
LocationOf(region) ==
  IF region \in DOMAIN regionToLocation THEN regionToLocation[region] ELSE ""

\* Mutant: no fallback rate for a type that is not in the table.
typePricesWithoutDefault(type) ==
  CASE type = "gp2" -> 1000000
    [] type = "gp3" -> 800000
    [] type = "io1" -> 1250000
    [] type = "st1" -> 450000
    [] type = "sc1" -> 250000
    [] OTHER -> 0

\* typePrices[vol.VolumeType] || 0.10
typePrices(type) ==
  CASE type = "gp2" -> 1000000
    [] type = "gp3" -> 800000
    [] type = "io1" -> 1250000
    [] type = "st1" -> 450000
    [] type = "sc1" -> 250000
    [] OTHER -> DefaultGbRate

(***************************************************************************)
(* The environment's answers.                                              *)
(***************************************************************************)
\* The provider's regions, in ascending order of JavaScript's default sort (by
\* code unit), which is what Array.prototype.sort() applies in getAllRegions.
AllRegions == <<"ap-south-1", "us-east-1">>
RegionSet == {AllRegions[i] : i \in DOMAIN AllRegions}
RegionRank(r) == CHOOSE i \in DOMAIN AllRegions : AllRegions[i] = r

\* What DescribeRegions may return: the regions in any order.
RegionListings == {<<"ap-south-1", "us-east-1">>, <<"us-east-1", "ap-south-1">>}

\* Insert a name into a sorted list, keeping it sorted.
RECURSIVE Insert(_, _)
Insert(r, sorted) ==
  IF sorted = <<>> THEN <<r>>
  ELSE IF RegionRank(r) <= RegionRank(Head(sorted)) THEN <<r>> \o sorted
  ELSE <<Head(sorted)>> \o Insert(r, Tail(sorted))

RECURSIVE SortNames(_)
SortNames(names) ==
  IF names = <<>> THEN <<>> ELSE Insert(Head(names), SortNames(Tail(names)))

\* Mutant: the listing is used in the order the provider gave it.
getAllRegionsUnsorted(listing) == listing

\* getAllRegions: data.Regions.map(r => r.RegionName).sort()
getAllRegions(listing) == SortNames(listing)

\* Creation times: 31 days, exactly 30 days and 5 days before Now.
Creations == {Now - 31, Now - 30, Now - 5}
\* The samples GetMetricData returns for the 1-day and the 30-day CPU query
\* (percent); their averages are 0, 1, 9, 10 and 0, 1.
CpuValues == {<<>>, <<0, 2>>, <<9>>, <<10>>}
LongCpuValues == {<<>>, <<1>>}
\* What GetProducts does: it throws, returns an empty PriceList, returns an
\* item that JSON.parse rejects, or returns an item with a price per hour.
HourlyPrices ==
  {[kind |-> "throw", usd |-> 0], [kind |-> "empty", usd |-> 0],
   [kind |-> "garbled", usd |-> 0], [kind |-> "item", usd |-> 116000]}
\* No price query is made for the resource.
NoPrice == [kind |-> "none", usd |-> 0]
Ec2States == {"running", "stopped", "pending"}
RdsStates == {"available", "stopped", "creating"}
EbsStates == {"in-use", "available", "creating"}
EbsTypes == {"gp3", "io2"}
EbsSizes == {100}
\* GetBucketLocation: it fails, or returns a LocationConstraint ("" for us-east-1).
BucketLocations == {"fail", "", "ap-south-1"}
\* Samples of NumberOfObjects, BucketSizeBytes (counted in GB), Invocations
\* and Duration (ms).
ObjectCounts == {<<>>, <<1>>}
BucketSizesGB == {<<1>>}
InvocationSums == {<<>>, <<400, 600>>}
DurationsMs == {<<200>>}
MemoriesMB == {512}

\* An EC2 instance as the provider reports it, with the answers to the queries
\* the code makes for it (a query the code does not make has the answer <<>>
\* or NoPrice).
Ec2Obs(region) ==
  [state : {"running"}, creation : Creations, cpu1 : CpuValues,
   hourly : IF LocationOf(region) # "" THEN HourlyPrices ELSE {NoPrice},
   cpu30 : LongCpuValues]
  \cup [state : Ec2States \ {"running"}, creation : Creations, cpu1 : {<<>>},
        hourly : {NoPrice}, cpu30 : {<<>>}]

RdsObs(region) ==
  [state : {"available"}, creation : Creations, cpu1 : CpuValues,
   hourly : IF LocationOf(region) # "" THEN HourlyPrices ELSE {NoPrice},
   cpu30 : LongCpuValues]
  \cup [state : RdsStates \ {"available"}, creation : Creations, cpu1 : {<<>>},
        hourly : {NoPrice}, cpu30 : {<<>>}]

EbsObs == [state : EbsStates, creation : Creations, type : EbsTypes, size : EbsSizes]

\* A bucket of the global listing; only a bucket located in the region that is
\* being processed gets metric queries.
S3Obs(region) ==
  LET here == IF region = "us-east-1" THEN {""} ELSE {region} \cap BucketLocations IN
  [loc : here, creation : Creations, numObjects : ObjectCounts,
   sizeGB : BucketSizesGB, long : ObjectCounts]
  \cup [loc : BucketLocations \ here, creation : Creations, numObjects : {<<>>},
        sizeGB : {<<>>}, long : {<<>>}]

\* A function; Duration is queried only when the 1-day invocation sum is > 0.
LambdaObs ==
  [creation : Creations, invocations : InvocationSums \ {<<>>}, duration : DurationsMs,
   memory : MemoriesMB, long : InvocationSums]
  \cup [creation : Creations, invocations : {<<>>}, duration : {<<>>},
        memory : MemoriesMB, long : InvocationSums]

ObsOf(service, region) ==
  CASE service = "ec2" -> Ec2Obs(region)
    [] service = "ebs" -> EbsObs
    [] service = "s3" -> S3Obs(region)
    [] service = "rds" -> RdsObs(region)
    [] service = "lambda" -> LambdaObs

(***************************************************************************)
(* getMetric and getHourlyPrice.                                           *)
(***************************************************************************)
\* values.reduce((a, b) => a + b, 0)
RECURSIVE Reduce(_, _)
Reduce(values, acc) ==
  IF values = <<>> THEN acc ELSE Reduce(Tail(values), acc + Head(values))

\* Mutant: the average is taken without the test for an empty sample list
\* (the quotient 0/0 is not a number; it compares false with every threshold).
getMetricUnguarded(stat, values) ==
  IF stat = "Sum" THEN Reduce(values, 0)
  ELSE IF Len(values) > 0 THEN Reduce(values, 0) \div Len(values) ELSE 1000000

\* getMetric: the sum of the samples for 'Sum', otherwise their mean, 0 when
\* there is none.  The mean is kept as its integer part: the CPU thresholds it
\* is compared with are integers, so those comparisons come out the same, and
\* the object counts and sizes drawn above have integer means.
getMetric(stat, values) ==
  IF stat = "Sum" THEN Reduce(values, 0)
  ELSE IF Len(values) > 0 THEN Reduce(values, 0) \div Len(values) ELSE 0

\* Mutant: no try/catch around the query and the parse.
getHourlyPriceUncaught(answer) ==
  LET thrown == answer.kind \in {"throw", "garbled"} IN
  [threw |-> thrown,
   value |-> IF ~thrown /\ answer.kind = "item" THEN answer.usd ELSE 0]

\* getHourlyPrice: the query and the parse run inside try; the catch block
\* logs; whatever did not return a price falls through to `return 0`.
getHourlyPrice(answer) ==
  LET thrown == answer.kind \in {"throw", "garbled"} IN
  [threw |-> FALSE,
   value |-> IF ~thrown /\ answer.kind = "item" THEN answer.usd ELSE 0]

(***************************************************************************)
(* The provider calls a handler makes, as entries of its call log.         *)
(***************************************************************************)
ListApi(service) ==
  CASE service = "ec2" -> "DescribeInstances"
    [] service = "ebs" -> "DescribeVolumes"
    [] service = "s3" -> "ListBuckets"
    [] service = "rds" -> "DescribeDBInstances"
    [] service = "lambda" -> "ListFunctions"

ListCall(region, service, count) ==
  [api |-> ListApi(service), region |-> region, service |-> service, count |-> count]

MetricCall(region, service, id, metricName, stat, days, values) ==
  [api |-> "GetMetricData", region |-> region, service |-> service, id |-> id,
   metricName |-> metricName, stat |-> stat, days |-> days, values |-> values,
   result |-> getMetric(stat, values)]

PriceCall(region, service, id, answer) ==
  [api |-> "GetProducts", region |-> region, service |-> service, id |-> id,
   answer |-> answer.kind, result |-> getHourlyPrice(answer).value]

LocationCall(region, id, loc) ==
  [api |-> "GetBucketLocation", region |-> region, service |-> "s3", id |-> id,
   loc |-> loc]

(***************************************************************************)
(* Classification and cost, as the three copies of the code compute them.  *)
(***************************************************************************)
\* fetchServiceResources: if (avgCpu < 1) idle; else if (avgCpu < 10) underutilized; else used
FetchCpuStatus(avgCpu) ==
  IF avgCpu < IdleCpu THEN "idle"
  ELSE IF avgCpu < UnderutilizedCpu THEN "underutilized"
  ELSE "used"

\* Mutant: the thresholds taken inclusively (<= 1, <= 10).
ScanCpuStatusInclusive(avgCpu) ==
  IF avgCpu <= IdleCpu THEN "idle"
  ELSE IF avgCpu <= UnderutilizedCpu THEN "underutilized"
  ELSE "used"

\* The same thresholds in the scan (GET /api/scan and, verbatim, the cron job).
ScanCpuStatus(avgCpu) ==
  IF avgCpu < IdleCpu THEN "idle"
  ELSE IF avgCpu < UnderutilizedCpu THEN "underutilized"
  ELSE "used"

\* Mutant: a volume that is not in use keeps its provider state.
FetchVolumeStatusRaw(state) == IF state = "in-use" THEN "used" ELSE state

\* vol.State === 'in-use' ? 'used' : 'idle', in fetchServiceResources
FetchVolumeStatus(state) == IF state = "in-use" THEN "used" ELSE "idle"

\* The same in the scan.
ScanVolumeStatus(state) == IF state = "in-use" THEN "used" ELSE "idle"

\* Mutant: only idle and stopped records count as unused.
IsUnusedIdleOnly(usageStatus) == usageStatus \in {"idle", "stopped"}

\* The scan pushes a record to unusedResources: usageStatus !== 'used'
IsUnused(usageStatus) == usageStatus # "used"

\* Mutant: the age test taken inclusively.
IsOlderInclusive(creation, cutoff) == creation <= cutoff

\* The scan's age test: creation < thirtyDaysAgo
IsOlder(creation, cutoff) == creation < cutoff

\* Mutant: a running instance is long idle whatever its 30-day average.
Ec2LongIdleAnyRunning(state, longMetric) == state \in {"stopped", "running"}

\* The scan's long-idle rules, next to the age test, per kind.
Ec2LongIdle(state, longMetric) ==
  state = "stopped" \/ (state = "running" /\ longMetric < IdleCpu)

\* Mutant: every volume that is not in use is long idle.
EbsLongIdleNotInUse(state) == state # "in-use"

EbsLongIdle(state) == state = "available"

S3LongIdle(longNumObjects) == longNumObjects = 0

RdsLongIdle(state, longMetric) ==
  state = "stopped" \/ (state = "available" /\ longMetric < IdleCpu)

LambdaLongIdle(longInvocations) == longInvocations = 0

\* Mutant: the cost of one day, not of thirty.
LambdaCostPerDay(invocations, avgDuration, memory) ==
  invocations * LambdaRequestRate
    + (((avgDuration * invocations * memory) \div (1000 * 1024)) * LambdaGbSecondRate)
        \div 1000

\* (reqCost + computeCost) * 30, with gbS = avgDuration/1000 * invocations * memory/1024
LambdaCost(invocations, avgDuration, memory) ==
  LET gbS == (avgDuration * invocations * memory) \div (1000 * 1024)
      reqCost == invocations * LambdaRequestRate
      computeCost == (gbS * LambdaGbSecondRate) \div 1000
  IN (reqCost + computeCost) * LambdaDays

\* Mutant: a stopped resource is metered like a live one.
IsMeteredOrStopped(state, live) == state = live \/ state = "stopped"

\* if (inst.state === 'running') and if (db.state === 'available'): the branch
\* that reads the metrics and the price.
IsMetered(state, live) == state = live

\* Mutant: the price is looked up whether or not the region has a location.
FetchPriceGateOpen(location) == TRUE

\* fetchServiceResources: if (location)
FetchPriceGate(location) == location # ""

\* The scan, EC2: if (location && inst.usageStatus !== 'stopped')
ScanEc2PriceGate(location, usageStatus) == location # "" /\ usageStatus # "stopped"

\* The scan, RDS: if (location)
ScanRdsPriceGate(location) == location # ""

(***************************************************************************)
(* fetchServiceResources: the record built for one listed resource.  The   *)
(* result says whether the resource is listed (a bucket of another region  *)
(* or without location is not), what it adds to totalCostEstimate, which   *)
(* provider calls were made for it, in order, and whether one of them      *)
(* threw to the handler out of a helper that is meant to catch.            *)
(***************************************************************************)
FetchEc2(region, id, o) ==
  LET rec0 == [service |-> "ec2", region |-> region, id |-> id, state |-> o.state,
               creation |-> o.creation, avgCpu |-> 0, usageStatus |-> o.state,
               monthlyCost |-> 0]
      metered == IsMetered(o.state, "running")
      avgCpu == getMetric("Average", o.cpu1)
      priced == metered /\ FetchPriceGate(LocationOf(region))
      hourly == getHourlyPrice(o.hourly)
      rec == IF metered
             THEN [rec0 EXCEPT !.avgCpu = avgCpu,
                               !.usageStatus = FetchCpuStatus(avgCpu),
                               !.monthlyCost = IF priced THEN hourly.value * HoursPerMonth
                                               ELSE 0]
             ELSE IF o.state = "stopped"
             THEN [rec0 EXCEPT !.usageStatus = "stopped", !.monthlyCost = 0]
             ELSE rec0
  IN [listed |-> TRUE, rec |-> rec, cost |-> IF priced THEN rec.monthlyCost ELSE 0,
      calls |-> (IF metered THEN <<MetricCall(region, "ec2", id, "CPUUtilization", "Average", 1, o.cpu1)>>
                 ELSE <<>>)
                \o (IF priced THEN <<PriceCall(region, "ec2", id, o.hourly)>> ELSE <<>>),
      threw |-> priced /\ hourly.threw]

FetchEbs(region, id, o) ==
  LET pricePerGb == typePrices(o.type)
      monthlyCost == o.size * pricePerGb
  IN [listed |-> TRUE,
      rec |-> [service |-> "ebs", region |-> region, id |-> id, type |-> o.type,
               state |-> o.state, size |-> o.size, creation |-> o.creation,
               usageStatus |-> FetchVolumeStatus(o.state),
               monthlyCost |-> monthlyCost],
      cost |-> monthlyCost, calls |-> <<>>, threw |-> FALSE]

\* locRes.LocationConstraint || 'us-east-1'
BucketRegion(loc) == IF loc = "" THEN "us-east-1" ELSE loc

\* Mutant: a bucket whose lookup failed is taken to be in the default region.
BucketListedOnFailure(loc, region) ==
  (IF loc = "fail" THEN "us-east-1" ELSE BucketRegion(loc)) = region

\* try { GetBucketLocation } catch { continue }; if (bucketRegion !== region) continue
BucketListed(loc, region) == loc # "fail" /\ BucketRegion(loc) = region

FetchS3(region, name, o) ==
  LET listed == BucketListed(o.loc, region)
      numObjects == getMetric("Average", o.numObjects)
      sizeGB == getMetric("Average", o.sizeGB)
      monthlyCost == sizeGB * S3GbRate IN
  [listed |-> listed,
   rec |-> [service |-> "s3", region |-> region, name |-> name, created |-> o.creation,
            numObjects |-> numObjects, sizeGB |-> sizeGB, creation |-> o.creation,
            usageStatus |-> IF numObjects > 0 THEN "used" ELSE "idle",
            monthlyCost |-> monthlyCost],
   cost |-> monthlyCost,
   calls |-> <<LocationCall(region, name, o.loc)>>
             \o (IF listed
                 THEN <<MetricCall(region, "s3", name, "NumberOfObjects", "Average", 1, o.numObjects),
                        MetricCall(region, "s3", name, "BucketSizeBytes", "Average", 1, o.sizeGB)>>
                 ELSE <<>>),
   threw |-> FALSE]

FetchRds(region, id, o) ==
  LET rec0 == [service |-> "rds", region |-> region, id |-> id, state |-> o.state,
               creation |-> o.creation, avgCpu |-> 0, usageStatus |-> o.state,
               monthlyCost |-> 0]
      metered == IsMetered(o.state, "available")
      avgCpu == getMetric("Average", o.cpu1)
      priced == metered /\ FetchPriceGate(LocationOf(region))
      hourly == getHourlyPrice(o.hourly)
      rec == IF metered
             THEN [rec0 EXCEPT !.avgCpu = avgCpu,
                               !.usageStatus = FetchCpuStatus(avgCpu),
                               !.monthlyCost = IF priced THEN hourly.value * HoursPerMonth
                                               ELSE 0]
             ELSE IF o.state = "stopped"
             THEN [rec0 EXCEPT !.usageStatus = "stopped", !.monthlyCost = 0]
             ELSE rec0
  IN [listed |-> TRUE, rec |-> rec, cost |-> IF priced THEN rec.monthlyCost ELSE 0,
      calls |-> (IF metered THEN <<MetricCall(region, "rds", id, "CPUUtilization", "Average", 1, o.cpu1)>>
                 ELSE <<>>)
                \o (IF priced THEN <<PriceCall(region, "rds", id, o.hourly)>> ELSE <<>>),
      threw |-> priced /\ hourly.threw]

FetchLambda(region, name, o) ==
  LET invocations == getMetric("Sum", o.invocations)
      avgDuration == getMetric("Average", o.duration)
      monthlyCost == IF invocations > 0
                     THEN LambdaCost(invocations, avgDuration, o.memory) ELSE 0 IN
  [listed |-> TRUE,
   rec |-> [service |-> "lambda", region |-> region, name |-> name, memory |-> o.memory,
            creation |-> o.creation, invocations |-> invocations,
            usageStatus |-> IF invocations > 0 THEN "used" ELSE "idle",
            monthlyCost |-> monthlyCost],
   cost |-> monthlyCost,
   calls |-> <<MetricCall(region, "lambda", name, "Invocations", "Sum", 1, o.invocations)>>
             \o (IF invocations > 0
                 THEN <<MetricCall(region, "lambda", name, "Duration", "Average", 1, o.duration)>>
                 ELSE <<>>),
   threw |-> FALSE]

FetchOne(service, region, id, o) ==
  CASE service = "ec2" -> FetchEc2(region, id, o)
    [] service = "ebs" -> FetchEbs(region, id, o)
    [] service = "s3" -> FetchS3(region, id, o)
    [] service = "rds" -> FetchRds(region, id, o)
    [] service = "lambda" -> FetchLambda(region, id, o)

(***************************************************************************)
(* The scan (GET /api/scan; the cron job repeats the same text): the       *)
(* record built for one listed resource, whether it is pushed to           *)
(* unusedResources and to longIdleResources, the 30-day aggregate that was *)
(* read for it (`long`, 0 when none was read) and the calls made for it.   *)
(***************************************************************************)
ScanEc2(region, id, o, cutoff) ==
  LET rec0 == [service |-> "ec2", region |-> region, id |-> id, state |-> o.state,
               creation |-> o.creation, avgCpu |-> 0, usageStatus |-> o.state,
               monthlyCost |-> 0]
      metered == IsMetered(o.state, "running")
      avgCpu == getMetric("Average", o.cpu1)
      status == ScanCpuStatus(avgCpu)
      priced == metered /\ ScanEc2PriceGate(LocationOf(region), status)
      hourly == getHourlyPrice(o.hourly)
      rec == IF metered
             THEN [rec0 EXCEPT !.avgCpu = avgCpu,
                               !.usageStatus = status,
                               !.monthlyCost = IF priced THEN hourly.value * HoursPerMonth
                                               ELSE 0]
             ELSE IF o.state = "stopped"
             THEN [rec0 EXCEPT !.usageStatus = "stopped", !.monthlyCost = 0]
             ELSE rec0
      longMetric == IF metered THEN getMetric("Average", o.cpu30) ELSE 0
  IN [listed |-> TRUE, rec |-> rec, long |-> longMetric,
      unused |-> IsUnused(rec.usageStatus),
      longIdle |-> IsOlder(rec.creation, cutoff) /\ Ec2LongIdle(rec.state, longMetric),
      calls |-> IF metered
                THEN <<MetricCall(region, "ec2", id, "CPUUtilization", "Average", 1, o.cpu1)>>
                     \o (IF priced THEN <<PriceCall(region, "ec2", id, o.hourly)>>
                         ELSE <<>>)
                     \o <<MetricCall(region, "ec2", id, "CPUUtilization", "Average", 30, o.cpu30)>>
                ELSE <<>>,
      threw |-> priced /\ hourly.threw]

ScanEbs(region, id, o, cutoff) ==
  LET pricePerGb == typePrices(o.type)
      rec == [service |-> "ebs", region |-> region, id |-> id, type |-> o.type,
              state |-> o.state, size |-> o.size, creation |-> o.creation,
              usageStatus |-> ScanVolumeStatus(o.state),
              monthlyCost |-> o.size * pricePerGb]
  IN
  [listed |-> TRUE, rec |-> rec, long |-> 0,
   unused |-> IsUnused(rec.usageStatus),
   longIdle |-> IsOlder(rec.creation, cutoff) /\ EbsLongIdle(rec.state),
   calls |-> <<>>, threw |-> FALSE]

ScanS3(region, name, o, cutoff) ==
  LET listed == BucketListed(o.loc, region)
      numObjects == getMetric("Average", o.numObjects)
      sizeGB == getMetric("Average", o.sizeGB)
      rec == [service |-> "s3", region |-> region, name |-> name, creation |-> o.creation,
              numObjects |-> numObjects, sizeGB |-> sizeGB,
              usageStatus |-> IF numObjects > 0 THEN "used" ELSE "idle",
              monthlyCost |-> sizeGB * S3GbRate]
      longNumObjects == getMetric("Average", o.long)
  IN [listed |-> listed,
      rec |-> rec, long |-> longNumObjects,
      unused |-> IsUnused(rec.usageStatus),
      longIdle |-> IsOlder(rec.creation, cutoff) /\ S3LongIdle(longNumObjects),
      calls |-> <<LocationCall(region, name, o.loc)>>
                \o (IF listed
                    THEN <<MetricCall(region, "s3", name, "NumberOfObjects", "Average", 1, o.numObjects),
                           MetricCall(region, "s3", name, "BucketSizeBytes", "Average", 1, o.sizeGB),
                           MetricCall(region, "s3", name, "NumberOfObjects", "Average", 30, o.long)>>
                    ELSE <<>>),
      threw |-> FALSE]

ScanRds(region, id, o, cutoff) ==
  LET rec0 == [service |-> "rds", region |-> region, id |-> id, state |-> o.state,
               creation |-> o.creation, avgCpu |-> 0, usageStatus |-> o.state,
               monthlyCost |-> 0]
      metered == IsMetered(o.state, "available")
      avgCpu == getMetric("Average", o.cpu1)
      priced == metered /\ ScanRdsPriceGate(LocationOf(region))
      hourly == getHourlyPrice(o.hourly)
      rec == IF metered
             THEN [rec0 EXCEPT !.avgCpu = avgCpu,
                               !.usageStatus = ScanCpuStatus(avgCpu),
                               !.monthlyCost = IF priced THEN hourly.value * HoursPerMonth
                                               ELSE 0]
             ELSE IF o.state = "stopped"
             THEN [rec0 EXCEPT !.usageStatus = "stopped", !.monthlyCost = 0]
             ELSE rec0
      longMetric == IF metered THEN getMetric("Average", o.cpu30) ELSE 0
  IN [listed |-> TRUE, rec |-> rec, long |-> longMetric,
      unused |-> IsUnused(rec.usageStatus),
      longIdle |-> IsOlder(rec.creation, cutoff) /\ RdsLongIdle(rec.state, longMetric),
      calls |-> IF metered
                THEN <<MetricCall(region, "rds", id, "CPUUtilization", "Average", 1, o.cpu1)>>
                     \o (IF priced THEN <<PriceCall(region, "rds", id, o.hourly)>>
                         ELSE <<>>)
                     \o <<MetricCall(region, "rds", id, "CPUUtilization", "Average", 30, o.cpu30)>>
                ELSE <<>>,
      threw |-> priced /\ hourly.threw]

ScanLambda(region, name, o, cutoff) ==
  LET invocations == getMetric("Sum", o.invocations)
      avgDuration == getMetric("Average", o.duration)
      rec == [service |-> "lambda", region |-> region, name |-> name, memory |-> o.memory,
              creation |-> o.creation, invocations |-> invocations,
              usageStatus |-> IF invocations > 0 THEN "used" ELSE "idle",
              monthlyCost |-> IF invocations > 0
                              THEN LambdaCost(invocations, avgDuration, o.memory) ELSE 0]
      longInvocations == getMetric("Sum", o.long)
  IN [listed |-> TRUE, rec |-> rec, long |-> longInvocations,
      unused |-> IsUnused(rec.usageStatus),
      longIdle |-> IsOlder(rec.creation, cutoff) /\ LambdaLongIdle(longInvocations),
      calls |-> <<MetricCall(region, "lambda", name, "Invocations", "Sum", 1, o.invocations)>>
                \o (IF invocations > 0
                    THEN <<MetricCall(region, "lambda", name, "Duration", "Average", 1, o.duration)>>
                    ELSE <<>>)
                \o <<MetricCall(region, "lambda", name, "Invocations", "Sum", 30, o.long)>>,
      threw |-> FALSE]

\* Mutant: the scan builds its records as the fetch does, without the 30-day
\* query.
ScanOneWithoutLookback(service, region, id, o, cutoff) ==
  LET f == FetchOne(service, region, id, o) IN
  [listed |-> f.listed, rec |-> f.rec, long |-> 0,
   unused |-> IsUnused(f.rec.usageStatus), longIdle |-> FALSE,
   calls |-> f.calls, threw |-> f.threw]

ScanOne(service, region, id, o, cutoff) ==
  CASE service = "ec2" -> ScanEc2(region, id, o, cutoff)
    [] service = "ebs" -> ScanEbs(region, id, o, cutoff)
    [] service = "s3" -> ScanS3(region, id, o, cutoff)
    [] service = "rds" -> ScanRds(region, id, o, cutoff)
    [] service = "lambda" -> ScanLambda(region, id, o, cutoff)

\* The calls of the results, one result after the other.
RECURSIVE CallsOf(_)
CallsOf(results) ==
  IF results = <<>> THEN <<>> ELSE Head(results).calls \o CallsOf(Tail(results))

\* The records of the results, in listing order.
RecordsOf(results) == [i \in 1..Len(results) |-> results[i].rec]

(***************************************************************************)
(* The notifier's message: subject and one body line per resource.         *)
(***************************************************************************)
\* r.id || r.name
Ident(r) == IF "id" \in DOMAIN r THEN r.id ELSE r.name

\* `${SERVICE} in ${region}: ${id || name} (${usageStatus}, Cost: $${monthlyCost})`
BodyLine(r) ==
  [service |-> r.service, region |-> r.region, ident |-> Ident(r),
   usageStatus |-> r.usageStatus, cost |-> r.monthlyCost]

MailOptions(list, isManual) ==
  [subject |-> IF isManual THEN "Manual AWS Resources Notification"
               ELSE "AWS Unused Resources Notification (>30 days)",
   \* the body: the resource lines, or the fixed sentence 'No unused
   \* resources found. This is a test email.' when there is none
   text |-> [testEmail |-> Len(list) = 0,
             lines |-> [i \in 1..Len(list) |-> BodyLine(list[i])]]]

(***************************************************************************)
(* State.                                                                  *)
(***************************************************************************)
VARIABLES
  lastUnusedResources,  \* the module-level list kept for the manual email
  emailConfigured,      \* EMAIL_USER, EMAIL_PASS and RECEIVER_EMAIL are all set
  handler,              \* the handler in flight: none, scan, cron, send, resources,
                        \* regions
  pc,                   \* its position: idle, regions, loop, sending, done
                        \* (done: it has answered and is about to return)
  regions,              \* the region list its loop walks
  services,             \* the service list its loop walks
  ri,                   \* index of the region being processed
  si,                   \* index of the service being processed
  thirtyDaysAgo,        \* the scan's cut-off time
  unusedResources,      \* the scan's local list
  longIdleResources,    \* the scan's local list
  resources,            \* the fetch handler's local list
  totalCostEstimate,    \* the fetch handler's local sum
  response,             \* what the handler answered (status 0: nothing yet, or
                        \* the cron job, which answers nobody; error: the
                        \* message sent with a 500 or logged by the cron job)
  outbox,               \* messages this handler handed to the mail transport
  notifierCalls,        \* calls of sendNotification made by this handler
  scanned,              \* history: every record this scan classified, with the
                        \* 30-day aggregate read for it
  before,               \* history: lastUnusedResources when this handler started
  lastScanList,         \* history: the unused list of the latest scan whose loops
                        \* ran to their end
  served,               \* history: records the provider has handed out so far
  credentials,          \* AWS_ACCESS_KEY_ID and AWS_SECRET_ACCESS_KEY are both set
  callLog,              \* history: the provider calls this handler has made, in
                        \* the order it made them
  logging,              \* whether callLog is kept in this specification
  pager,                \* a run of paginateDescribe, taken by itself
  scans,                \* two scans that overlap, taken by themselves
  debouncer             \* the dashboard's debounced fetchResources, taken by itself

vars == <<lastUnusedResources, emailConfigured, handler, pc, regions, services, ri, si,
          thirtyDaysAgo, unusedResources, longIdleResources, resources,
          totalCostEstimate, response, outbox, notifierCalls, scanned, before,
          lastScanList, served, credentials, callLog, logging, pager, scans, debouncer>>

NoResponse == [status |-> 0, error |-> "", body |-> [error |-> ""]]

\* No run of paginateDescribe is being looked at.
NoPager == [pc |-> "none"]
NoScans == [pc |-> "none"]
NoDebouncer == [pc |-> "none"]

\* The process has been started: the environment file has been read, nothing
\* else has run.
Started(log) ==
  /\ lastUnusedResources = <<>>
  /\ emailConfigured \in BOOLEAN
  /\ credentials \in BOOLEAN
  /\ callLog = <<>>
  /\ logging = log
  /\ handler = "none"
  /\ pc = "boot"
  /\ regions = <<>>
  /\ services = <<>>
  /\ ri = 1
  /\ si = 1
  /\ thirtyDaysAgo = 0
  /\ unusedResources = <<>>
  /\ longIdleResources = <<>>
  /\ resources = <<>>
  /\ totalCostEstimate = 0
  /\ response = NoResponse
  /\ outbox = <<>>
  /\ notifierCalls = 0
  /\ scanned = <<>>
  /\ before = <<>>
  /\ lastScanList = <<>>
  /\ served = 0

Init ==
  Started(FALSE) /\ pager = NoPager /\ scans = NoScans /\ debouncer = NoDebouncer

\* The calls the handler has made, with these appended when the log is kept.
Logged(entries) == IF logging THEN callLog \o entries ELSE callLog

\* Mutant: a missing mail configuration also ends the process.
StartupExitsOnAnyAbsent(creds, mail) == ~creds \/ ~mail

\* The checks at load time: process.exit(1) when the access key or the secret
\* is absent; a missing mail user, password or recipient is only warned about.
StartupExits(creds, mail) == ~creds

\* The top level of server.js: without AWS credentials the process exits with
\* code 1; without mail configuration it warns and goes on; then the cron job
\* is scheduled and the server listens.
Startup ==
  /\ pc = "boot"
  /\ pc' = IF StartupExits(credentials, emailConfigured) THEN "exited" ELSE "idle"
  /\ UNCHANGED <<lastUnusedResources, emailConfigured, handler, regions, services, ri, si,
                 thirtyDaysAgo, unusedResources, longIdleResources, resources,
                 totalCostEstimate, response, outbox, notifierCalls, scanned, before,
                 lastScanList, served, credentials, callLog, logging, pager, scans, debouncer>>

\* The handlers are taken one at a time: a request arrives when none is in flight.
Quiet == pc = "idle"

\* A fresh handler: its locals as the code initialises them.
Fresh(h) ==
  /\ handler' = h
  /\ ri' = 1
  /\ si' = 1
  /\ thirtyDaysAgo' = 0
  /\ unusedResources' = <<>>
  /\ longIdleResources' = <<>>
  /\ resources' = <<>>
  /\ totalCostEstimate' = 0
  /\ scanned' = <<>>
  /\ before' = lastUnusedResources
  /\ callLog' = <<>>

\* Mutant: an error of the cron job is not caught and ends the process.
CaughtExceptCron(h, msg) ==
  /\ pc' = IF h = "cron" THEN "exited" ELSE "done"
  /\ response' = [status |-> IF h = "cron" THEN 0 ELSE 500,
                  error |-> msg, body |-> [error |-> msg]]

\* Mutant: the catch block logs and answers nothing.
CaughtSilently(h, msg) ==
  /\ pc' = "done"
  /\ response' = NoResponse

\* The catch block: GET handlers answer 500 with the message, the cron job logs it.
Caught(h, msg) ==
  /\ pc' = "done"
  /\ response' = [status |-> IF h = "cron" THEN 0 ELSE 500,
                  error |-> msg, body |-> [error |-> msg]]

(***************************************************************************)
(* sendNotification, up to the point where it awaits the mail transport:   *)
(* it throws when the mail configuration is missing, otherwise it hands    *)
(* one message to transporter.sendMail.                                    *)
(***************************************************************************)
\* Mutant: the configuration is not looked at.
sendNotificationUnchecked(h, list, isManual, calls, sent) ==
  /\ notifierCalls' = calls + 1
  /\ pc' = "sending"
  /\ outbox' = Append(sent, MailOptions(list, isManual))
  /\ response' = NoResponse

\* Mutant: one message per resource instead of one message with the list.
sendNotificationPerResource(h, list, isManual, calls, sent) ==
  /\ notifierCalls' = calls + 1
  /\ IF ~emailConfigured
     THEN /\ Caught(h, "Missing email configuration in .env")
          /\ outbox' = sent
     ELSE /\ pc' = "sending"
          /\ outbox' = sent \o [i \in 1..Len(list) |-> MailOptions(<<list[i]>>, isManual)]
          /\ response' = NoResponse

sendNotification(h, list, isManual, calls, sent) ==
  /\ notifierCalls' = calls + 1
  /\ IF ~emailConfigured
     THEN /\ Caught(h, "Missing email configuration in .env")
          /\ outbox' = sent
     ELSE /\ pc' = "sending"
          /\ outbox' = Append(sent, MailOptions(list, isManual))
          /\ response' = NoResponse

\* getAllRegions: DescribeRegions, always sent to us-east-1.
RegionsCall == [api |-> "DescribeRegions", region |-> "us-east-1", service |-> "ec2"]

\* res.json({ unusedResources }); the cron job answers nobody.
ScanAnswer(h, unused) ==
  IF h = "cron" THEN NoResponse
  ELSE [status |-> 200, error |-> "", body |-> [unusedResources |-> unused]]

\* The loop's position after the current (region, service) pair.
LastPair == ri = Len(regions) /\ si = Len(services)
Advance ==
  /\ ri' = IF si < Len(services) THEN ri ELSE ri + 1
  /\ si' = IF si < Len(services) THEN si + 1 ELSE 1

(***************************************************************************)
(* GET /api/scan and the cron job.                                         *)
(***************************************************************************)
\* The request arrives (or the schedule fires): getAllRegions is called.
ScanStart(h) ==
  /\ Quiet
  /\ Fresh(h)
  /\ pc' = "regions"
  /\ regions' = <<>>
  /\ services' = Services
  /\ response' = NoResponse
  /\ outbox' = <<>>
  /\ notifierCalls' = 0
  /\ UNCHANGED <<lastUnusedResources, emailConfigured, lastScanList, served, credentials, logging, pager, scans, debouncer>>

\* getAllRegions returns or throws; thirtyDaysAgo is computed.
ScanRegions ==
  /\ handler \in {"scan", "cron"}
  /\ pc = "regions"
  /\ \/ /\ Caught(handler, "DescribeRegions failed")
        /\ UNCHANGED <<regions, thirtyDaysAgo>>
     \/ /\ \E listing \in RegionListings : regions' = getAllRegions(listing)
        /\ thirtyDaysAgo' = Now - ThirtyDays
        /\ pc' = "loop"
        /\ response' = response
  /\ callLog' = Logged(<<RegionsCall>>)
  /\ UNCHANGED <<lastUnusedResources, emailConfigured, handler, services, ri, si,
                 unusedResources, longIdleResources, resources, totalCostEstimate,
                 outbox, notifierCalls, scanned, before,
                 lastScanList, served, credentials, logging, pager, scans, debouncer>>

\* Mutant: the notifier is called whether or not something is long idle.
ScanConcludeAlwaysNotify(unused, longIdle) ==
  /\ lastUnusedResources' = unused
  /\ sendNotification(handler, longIdle, FALSE, notifierCalls, outbox)

\* Mutant: the list is stored only when no notification is due.
ScanConcludeStoreWithoutMail(unused, longIdle) ==
  /\ lastUnusedResources' = IF Len(longIdle) > 0 THEN lastUnusedResources ELSE unused
  /\ IF Len(longIdle) > 0
     THEN sendNotification(handler, longIdle, FALSE, notifierCalls, outbox)
     ELSE /\ pc' = "done"
          /\ response' = ScanAnswer(handler, unused)
          /\ UNCHANGED <<outbox, notifierCalls>>

\* Mutant: an empty result does not replace the stored list.
ScanConcludeKeepNonEmpty(unused, longIdle) ==
  /\ lastUnusedResources' = IF unused = <<>> THEN lastUnusedResources ELSE unused
  /\ IF Len(longIdle) > 0
     THEN sendNotification(handler, longIdle, FALSE, notifierCalls, outbox)
     ELSE /\ pc' = "done"
          /\ response' = ScanAnswer(handler, unused)
          /\ UNCHANGED <<outbox, notifierCalls>>

\* After the loops: store the list, notify when something is long idle, answer.
ScanConclude(unused, longIdle) ==
  /\ lastUnusedResources' = unused
  /\ IF Len(longIdle) > 0
     THEN sendNotification(handler, longIdle, FALSE, notifierCalls, outbox)
     ELSE /\ pc' = "done"
          /\ response' = ScanAnswer(handler, unused)
          /\ UNCHANGED <<outbox, notifierCalls>>

\* One (region, service) pair of the loops: the listing, the metric and price
\* queries of every listed resource, the pushes.  Any provider call may throw,
\* which ends the scan in the catch block.  The last pair runs on into the
\* code after the loops.
ScanPair ==
  /\ handler \in {"scan", "cron"}
  /\ pc = "loop"
  /\ LET region == regions[ri]
         service == services[si]
     IN \/ /\ \E msg \in {"listing failed"}
                     \cup (IF service = "ebs" THEN {} ELSE {"GetMetricData failed"}) :
                Caught(handler, msg)
           /\ UNCHANGED <<lastUnusedResources, ri, si, unusedResources,
                          longIdleResources, outbox, notifierCalls, scanned,
                          lastScanList, served, callLog>>
        \/ \E n \in 0..(MaxRecords - served) :
             \E obs \in [1..n -> ObsOf(service, region)] :
               LET results == [i \in 1..n |->
                                 ScanOne(service, region, i, obs[i], thirtyDaysAgo)]
                   listed == SelectSeq(results, LAMBDA x : x.listed)
                   unused == unusedResources
                               \o RecordsOf(SelectSeq(listed, LAMBDA x : x.unused))
                   longIdle == longIdleResources
                                 \o RecordsOf(SelectSeq(listed, LAMBDA x : x.longIdle))
               IN /\ served' = served + n
                  /\ callLog' = Logged(<<ListCall(region, service, n)>>
                                          \o CallsOf(results))
                  /\ unusedResources' = unused
                  /\ longIdleResources' = longIdle
                  /\ scanned' = scanned \o [i \in 1..Len(listed) |->
                                  [rec |-> listed[i].rec, long |-> listed[i].long]]
                  /\ IF \E i \in 1..n : results[i].threw
                     THEN /\ Caught(handler, "GetProducts failed")
                          /\ UNCHANGED <<lastUnusedResources, ri, si, outbox,
                                         notifierCalls, lastScanList>>
                     ELSE IF LastPair
                     THEN /\ ScanConclude(unused, longIdle)
                          /\ lastScanList' = unused
                          /\ UNCHANGED <<ri, si>>
                     ELSE /\ Advance
                          /\ UNCHANGED <<lastUnusedResources, pc, response, outbox,
                                         notifierCalls, lastScanList>>
  /\ UNCHANGED <<emailConfigured, handler, regions, services, thirtyDaysAgo,
                 resources, totalCostEstimate, before, credentials, logging, pager, scans, debouncer>>

(***************************************************************************)
(* GET /api/send-email.                                                    *)
(***************************************************************************)
SendEmail ==
  /\ Quiet
  /\ Fresh("send")
  /\ regions' = <<>>
  /\ services' = <<>>
  /\ sendNotification("send", lastUnusedResources, TRUE, 0, <<>>)
  /\ UNCHANGED <<lastUnusedResources, emailConfigured, lastScanList, served, credentials, logging, pager, scans, debouncer>>

\* await transporter.sendMail(mailOptions), as an entry of the call log.
MailCall(ok) == [api |-> "sendMail", region |-> "", service |-> "", ok |-> ok]

\* transporter.sendMail resolves or rejects; the handler that awaited it answers.
MailDone ==
  /\ pc = "sending"
  /\ \/ /\ Caught(handler, "sendMail failed")
        /\ callLog' = Logged(<<MailCall(FALSE)>>)
     \/ /\ pc' = "done"
        /\ response' = IF handler = "send"
                       THEN [status |-> 200, error |-> "",
                             body |-> [message |-> "Email sent successfully"]]
                       ELSE ScanAnswer(handler, unusedResources)
        /\ callLog' = Logged(<<MailCall(TRUE)>>)
  /\ UNCHANGED <<lastUnusedResources, emailConfigured, handler, regions, services, ri, si,
                 thirtyDaysAgo, unusedResources, longIdleResources, resources,
                 totalCostEstimate, outbox, notifierCalls, scanned, before,
                 lastScanList, served, credentials, logging, pager, scans, debouncer>>

\* Mutant: the cost of a volume is not added to the total.
RECURSIVE SumCostExceptVolumes(_)
SumCostExceptVolumes(results) ==
  IF results = <<>> THEN 0
  ELSE (IF results[1].rec.service = "ebs" THEN 0 ELSE results[1].cost)
         + SumCostExceptVolumes(Tail(results))

(***************************************************************************)
(* GET /api/resources/:service/:region.                                    *)
(***************************************************************************)
RECURSIVE SumCost(_)
SumCost(results) ==
  IF results = <<>> THEN 0 ELSE results[1].cost + SumCost(Tail(results))

ServiceParams == {"ec2", "ebs", "s3", "rds", "lambda", "all", "efs"}
RegionParams == RegionSet \cup {"all"}

\* res.json({ resources, totalCostEstimate })
FetchAnswer(list, total) ==
  [status |-> 200, error |-> "",
   body |-> [resources |-> list, totalCostEstimate |-> total]]

\* The request arrives: with all/all getAllRegions is called first, otherwise
\* the first fetchServiceResources call is issued.
FetchStart(service, region) ==
  /\ Quiet
  /\ Fresh("resources")
  /\ services' = IF service = "all" THEN Services ELSE <<service>>
  /\ IF service = "all" /\ region = "all"
     THEN /\ pc' = "regions"
          /\ regions' = <<>>
     ELSE /\ pc' = "loop"
          /\ regions' = <<region>>
  /\ response' = NoResponse
  /\ outbox' = <<>>
  /\ notifierCalls' = 0
  /\ UNCHANGED <<lastUnusedResources, emailConfigured, lastScanList, served, credentials, logging, pager, scans, debouncer>>

FetchRegions ==
  /\ handler = "resources"
  /\ pc = "regions"
  /\ \/ /\ Caught(handler, "DescribeRegions failed")
        /\ UNCHANGED regions
     \/ /\ \E listing \in RegionListings : regions' = getAllRegions(listing)
        /\ pc' = "loop"
        /\ response' = response
  /\ callLog' = Logged(<<RegionsCall>>)
  /\ UNCHANGED <<lastUnusedResources, emailConfigured, handler, services, ri, si,
                 thirtyDaysAgo, unusedResources, longIdleResources, resources,
                 totalCostEstimate, outbox, notifierCalls, scanned, before,
                 lastScanList, served, credentials, logging, pager, scans, debouncer>>

\* One fetchServiceResources(service, region) call and what the handler does
\* with its result.  A service outside the switch throws 'Invalid service'; a
\* region the provider does not know makes every regional listing fail (the
\* bucket listing always goes to us-east-1).
FetchPair ==
  /\ handler = "resources"
  /\ pc = "loop"
  /\ LET region == regions[ri]
         service == services[si]
         known == service \in {Services[i] : i \in DOMAIN Services}
     IN \/ /\ ~known
           /\ Caught(handler, "Invalid service")
           /\ UNCHANGED <<ri, si, resources, totalCostEstimate, served, callLog>>
        \/ /\ known
           /\ \E msg \in {"listing failed"}
                     \cup (IF service = "ebs" \/ region \notin RegionSet
                           THEN {} ELSE {"GetMetricData failed"}) :
                Caught(handler, msg)
           /\ UNCHANGED <<ri, si, resources, totalCostEstimate, served, callLog>>
        \/ /\ known
           /\ region \in RegionSet \/ service = "s3"
           /\ \E n \in 0..(MaxRecords - served) :
                \E obs \in [1..n -> ObsOf(service, region)] :
                  LET results == [i \in 1..n |-> FetchOne(service, region, i, obs[i])]
                      listed == SelectSeq(results, LAMBDA x : x.listed)
                      list == resources \o RecordsOf(listed)
                      total == totalCostEstimate + SumCost(listed)
                  IN /\ served' = served + n
                     /\ callLog' = Logged(<<ListCall(region, service, n)>>
                                             \o CallsOf(results))
                     /\ resources' = list
                     /\ totalCostEstimate' = total
                     /\ IF \E i \in 1..n : results[i].threw
                        THEN /\ Caught(handler, "GetProducts failed")
                             /\ UNCHANGED <<ri, si>>
                        ELSE IF LastPair
                        THEN /\ pc' = "done"
                             /\ response' = FetchAnswer(list, total)
                             /\ UNCHANGED <<ri, si>>
                        ELSE /\ Advance
                             /\ UNCHANGED <<pc, response>>
  /\ UNCHANGED <<lastUnusedResources, emailConfigured, handler, regions, services,
                 thirtyDaysAgo, unusedResources, longIdleResources, outbox,
                 notifierCalls, scanned, before, lastScanList, credentials, logging, pager, scans, debouncer>>

(***************************************************************************)
(* GET /api/regions.                                                       *)
(***************************************************************************)
\* res.json(regions)
RegionsAnswer(list) == [status |-> 200, error |-> "", body |-> [regions |-> list]]

\* The request arrives: getAllRegions is called.
RegionsStart ==
  /\ Quiet
  /\ Fresh("regions")
  /\ pc' = "regions"
  /\ regions' = <<>>
  /\ services' = <<>>
  /\ response' = NoResponse
  /\ outbox' = <<>>
  /\ notifierCalls' = 0
  /\ UNCHANGED <<lastUnusedResources, emailConfigured, lastScanList, served, credentials,
                 logging, pager, scans, debouncer>>

\* getAllRegions returns or throws; the handler answers.
RegionsDone ==
  /\ handler = "regions"
  /\ pc = "regions"
  /\ \/ /\ Caught(handler, "DescribeRegions failed")
        /\ UNCHANGED regions
     \/ \E listing \in RegionListings :
          /\ regions' = getAllRegions(listing)
          /\ pc' = "done"
          /\ response' = RegionsAnswer(getAllRegions(listing))
  /\ callLog' = Logged(<<RegionsCall>>)
  /\ UNCHANGED <<lastUnusedResources, emailConfigured, handler, services, ri, si,
                 thirtyDaysAgo, unusedResources, longIdleResources, resources,
                 totalCostEstimate, outbox, notifierCalls, scanned, before,
                 lastScanList, served, credentials, logging, pager, scans, debouncer>>

\* The handler returns: its locals and what it answered are gone.
Return ==
  /\ pc = "done"
  /\ pc' = "idle"
  /\ handler' = "none"
  /\ regions' = <<>>
  /\ services' = <<>>
  /\ ri' = 1
  /\ si' = 1
  /\ thirtyDaysAgo' = 0
  /\ unusedResources' = <<>>
  /\ longIdleResources' = <<>>
  /\ resources' = <<>>
  /\ totalCostEstimate' = 0
  /\ response' = NoResponse
  /\ outbox' = <<>>
  /\ notifierCalls' = 0
  /\ scanned' = <<>>
  /\ before' = <<>>
  /\ callLog' = <<>>
  /\ UNCHANGED <<lastUnusedResources, emailConfigured, lastScanList, served, credentials, logging, pager, scans, debouncer>>

Next ==
  \/ Startup
  \/ \E h \in {"scan", "cron"} : ScanStart(h)
  \/ ScanRegions
  \/ ScanPair
  \/ SendEmail
  \/ MailDone
  \/ \E service \in ServiceParams, region \in RegionParams : FetchStart(service, region)
  \/ FetchRegions
  \/ FetchPair
  \/ RegionsStart
  \/ RegionsDone
  \/ Return

Spec == Init /\ [][Next]_vars

\* One request (or one run of the cron job) served by a freshly started
\* process, with the log of its provider calls kept.
LogInit ==
  Started(TRUE) /\ pager = NoPager /\ scans = NoScans /\ debouncer = NoDebouncer

LogNext ==
  \/ Startup
  \/ \E h \in {"scan", "cron"} : ScanStart(h)
  \/ ScanRegions
  \/ ScanPair
  \/ SendEmail
  \/ MailDone
  \/ \E service \in ServiceParams, region \in RegionParams : FetchStart(service, region)
  \/ FetchRegions
  \/ FetchPair

LogSpec == LogInit /\ [][LogNext]_vars

(***************************************************************************)
(* paginateDescribe, taken by itself: one run of the helper against a      *)
(* listing that the provider splits over pages.  The provider reads the    *)
(* continuation token from the request member, and returns it in the       *)
(* response member, that the API of the command defines: DescribeInstances *)
(* and DescribeVolumes take NextToken and return NextToken,                *)
(* DescribeDBInstances takes Marker and returns Marker, ListFunctions      *)
(* takes Marker and returns NextMarker.  A request member the command does *)
(* not define is not sent.                                                 *)
(***************************************************************************)
PagedKinds == {"ec2", "ebs", "rds", "lambda"}

\* The request member from which the command reads the continuation token.
TokenParam(kind) == IF kind \in {"ec2", "ebs"} THEN "NextToken" ELSE "Marker"

\* The response member in which the command returns the continuation token.
TokenField(kind) ==
  CASE kind \in {"ec2", "ebs"} -> "NextToken"
    [] kind = "rds" -> "Marker"
    [] kind = "lambda" -> "NextMarker"

\* The records 1, 2, ... of a listing, split into pages of the given sizes.
RECURSIVE SplitPages(_, _)
SplitPages(sizes, first) ==
  IF sizes = <<>> THEN <<>>
  ELSE <<[i \in 1..Head(sizes) |-> first + i - 1]>>
         \o SplitPages(Tail(sizes), first + Head(sizes))

PageSplits ==
  UNION {{SplitPages(sizes, 1) : sizes \in [1..m -> 0..MaxPageSize]} : m \in 1..MaxPages}

\* The provider's answer to a request that carries `token` in NextToken (0: no
\* token).  Page k is followed by page k + 1; the token of page k + 1 is k + 1.
PageAnswer(kind, pages, token) ==
  LET read == IF TokenParam(kind) = "NextToken" THEN token ELSE 0
      k == IF read = 0 THEN 1 ELSE read
      next == IF k < Len(pages) THEN k + 1 ELSE 0
  IN [page |-> k,
      records |-> pages[k],
      NextToken |-> IF TokenField(kind) = "NextToken" THEN next ELSE 0,
      Marker |-> IF TokenField(kind) = "Marker" THEN next ELSE 0,
      NextMarker |-> IF TokenField(kind) = "NextMarker" THEN next ELSE 0]

\* nextToken = data.NextToken || data.Marker
ReadToken(data) == IF data.NextToken # 0 THEN data.NextToken ELSE data.Marker

serverVars ==
  <<lastUnusedResources, emailConfigured, handler, pc, regions, services, ri, si,
    thirtyDaysAgo, unusedResources, longIdleResources, resources, totalCostEstimate,
    response, outbox, notifierCalls, scanned, before, lastScanList, served,
    credentials, callLog, logging, scans, debouncer>>

\* paginateDescribe is called: results = [], nextToken undefined.
PaginateInit ==
  /\ Started(FALSE)
  /\ scans = NoScans
  /\ debouncer = NoDebouncer
  /\ pager \in [pc : {"loop"}, kind : PagedKinds, pages : PageSplits, nextToken : {0},
                 results : {<<>>}, requested : {<<>>}]

\* One turn of the do-while loop: the request is sent with NextToken:
\* nextToken, the records of the answer are appended, the token is read, and
\* the loop goes on while there is one.
PaginateTurn ==
  /\ pager.pc = "loop"
  /\ Len(pager.requested) < MaxRequests
  /\ LET data == PageAnswer(pager.kind, pager.pages, pager.nextToken)
         nextToken == ReadToken(data)
     IN pager' = [pager EXCEPT !.requested = Append(@, data.page),
                               !.results = @ \o data.records,
                               !.nextToken = nextToken,
                               !.pc = IF nextToken # 0 THEN "loop" ELSE "returned"]
  /\ UNCHANGED serverVars

\* client.send rejects: the error is rethrown to the caller.
PaginateThrow ==
  /\ pager.pc = "loop"
  /\ Len(pager.requested) < MaxRequests
  /\ pager' = [pager EXCEPT !.pc = "threw"]
  /\ UNCHANGED serverVars

PaginateNext == PaginateTurn \/ PaginateThrow

PaginateSpec == PaginateInit /\ [][PaginateNext]_vars

(***************************************************************************)
(* Two scans that overlap, taken by themselves: GET /api/scan together     *)
(* with a second GET /api/scan or with the cron job.  Each is an           *)
(* invocation of its async callback with its own locals; they take turns   *)
(* at their await points and share lastUnusedResources.  The provider      *)
(* lists volumes only.                                                     *)
(***************************************************************************)
ScanSlots == {1, 2}

\* What the provider holds while the two scans run: available volumes, created
\* 31 or 5 days ago.
OverlapObs(service, region) ==
  IF service = "ebs"
  THEN [state : {"available"}, creation : {Now - 31, Now - 5}, type : {"gp3"},
        size : {100}]
  ELSE {}

\* for (let region of regions) for (let service of services): the k-th pair.
PairAt(k) ==
  [region |-> AllRegions[((k - 1) \div Len(Services)) + 1],
   service |-> Services[((k - 1) % Len(Services)) + 1]]

PairCount == Len(AllRegions) * Len(Services)

\* Mutant: the two lists are shared by all invocations (those of the first).
AccumulatorShared(i) == 1

\* let unusedResources = []; let longIdleResources = []; inside the callback:
\* every invocation pushes to lists of its own.
Accumulator(i) == i

\* An invocation that has not begun; gathered and stored are history: the
\* unused records the provider handed to this invocation, and whether it has
\* assigned lastUnusedResources.
IdleScan(kind) ==
  [kind |-> kind, pc |-> "idle", k |-> 1, unusedResources |-> <<>>,
   longIdleResources |-> <<>>, gathered |-> <<>>, stored |-> FALSE,
   response |-> NoResponse]

\* The catch block of invocation i.
OverlapCaught(sc, i, msg) ==
  [sc EXCEPT !.slot[i].pc = "done",
             !.slot[i].response =
                [status |-> IF sc.slot[i].kind = "cron" THEN 0 ELSE 500,
                 error |-> msg, body |-> [error |-> msg]],
             !.lastFinished = i]

\* res.json({ unusedResources }) of invocation i; the cron job ends silently.
OverlapAnswered(sc, i) ==
  [sc EXCEPT !.slot[i].pc = "done",
             !.slot[i].response =
                ScanAnswer(sc.slot[i].kind, sc.slot[Accumulator(i)].unusedResources),
             !.lastFinished = i]

OverlapInit ==
  /\ Started(FALSE)
  /\ pager = NoPager
  /\ debouncer = NoDebouncer
  /\ scans \in [slot : {[i \in ScanSlots |-> IdleScan(IF i = 1 THEN "scan" ELSE kind)] :
                          kind \in {"scan", "cron"}},
                 lastStore : {0}, lastFinished : {0}]

overlapFrame ==
  <<emailConfigured, handler, pc, regions, services, ri, si, thirtyDaysAgo,
    unusedResources, longIdleResources, resources, totalCostEstimate, response, outbox,
    notifierCalls, scanned, before, lastScanList, served, credentials, callLog, logging,
    pager, debouncer>>

\* The request arrives or the schedule fires: getAllRegions is called.
OverlapStart(i) ==
  /\ pc = "idle"
  /\ scans.slot[i].pc = "idle"
  /\ scans' = [scans EXCEPT !.slot[i].pc = "regions"]
  /\ UNCHANGED <<lastUnusedResources, overlapFrame>>

\* getAllRegions returns or throws.
OverlapRegions(i) ==
  /\ scans.slot[i].pc = "regions"
  /\ \/ scans' = OverlapCaught(scans, i, "DescribeRegions failed")
     \/ scans' = [scans EXCEPT !.slot[i].pc = "loop"]
  /\ UNCHANGED <<lastUnusedResources, overlapFrame>>

\* One pair of the loop of invocation i, from its listing to the await that
\* follows the pair; after the last pair the code runs on, without an await,
\* through lastUnusedResources = unusedResources up to the await of the
\* notifier, or to res.json when nothing is long idle.
OverlapPair(i) ==
  /\ scans.slot[i].pc = "loop"
  /\ LET me == scans.slot[i]
         pair == PairAt(me.k)
         a == Accumulator(i)
     IN \/ /\ scans' = OverlapCaught(scans, i, "listing failed")
           /\ UNCHANGED lastUnusedResources
        \/ \E n \in 0..(MaxRecords - Len(me.gathered)) :
             \E obs \in [1..n -> OverlapObs(pair.service, pair.region)] :
               LET results == [j \in 1..n |->
                                 ScanOne(pair.service, pair.region, j, obs[j],
                                         Now - ThirtyDays)]
                   newUnused == RecordsOf(SelectSeq(results, LAMBDA x : x.unused))
                   newLongIdle == RecordsOf(SelectSeq(results, LAMBDA x : x.longIdle))
                   unused == scans.slot[a].unusedResources \o newUnused
                   longIdle == scans.slot[a].longIdleResources \o newLongIdle
                   pushed == [scans EXCEPT !.slot[a].unusedResources = unused,
                                           !.slot[a].longIdleResources = longIdle,
                                           !.slot[i].gathered = @ \o newUnused]
                   stored == [pushed EXCEPT !.slot[i].stored = TRUE, !.lastStore = i]
               IN IF me.k < PairCount
                  THEN /\ scans' = [pushed EXCEPT !.slot[i].k = @ + 1]
                       /\ UNCHANGED lastUnusedResources
                  ELSE /\ lastUnusedResources' = unused
                       /\ scans' =
                            IF Len(longIdle) > 0
                            THEN IF emailConfigured
                                 THEN [stored EXCEPT !.slot[i].pc = "sending"]
                                 ELSE OverlapCaught(stored, i,
                                        "Missing email configuration in .env")
                            ELSE OverlapAnswered(stored, i)
  /\ UNCHANGED overlapFrame

\* transporter.sendMail resolves or rejects; invocation i answers.
OverlapMailDone(i) ==
  /\ scans.slot[i].pc = "sending"
  /\ \/ scans' = OverlapCaught(scans, i, "sendMail failed")
     \/ scans' = OverlapAnswered(scans, i)
  /\ UNCHANGED <<lastUnusedResources, overlapFrame>>

OverlapNext ==
  \/ Startup
  \/ \E i \in ScanSlots : OverlapStart(i)
  \/ \E i \in ScanSlots : OverlapRegions(i)
  \/ \E i \in ScanSlots : OverlapPair(i)
  \/ \E i \in ScanSlots : OverlapMailDone(i)

OverlapSpec == OverlapInit /\ [][OverlapNext]_vars

(***************************************************************************)
(* debounce(func, wait) of the dashboard, taken by itself: the function it *)
(* returns, called by the event listeners, with the browser's timer.  The  *)
(* clock counts quarters of a second.  A timer runs its callback when its  *)
(* delay has passed, or later.                                             *)
(***************************************************************************)
\* debounce(fetchResources, 500)
Wait == 2

\* What the listeners pass to the debounced function.
DebounceArgs == {"click", "change"}

serverVarsAndPager ==
  <<lastUnusedResources, emailConfigured, handler, pc, regions, services, ri, si,
    thirtyDaysAgo, unusedResources, longIdleResources, resources, totalCostEstimate,
    response, outbox, notifierCalls, scanned, before, lastScanList, served,
    credentials, callLog, logging, pager, scans>>

\* Mutant: the timer is set without delay.
DueTimeAtOnce(t, wait) == t

\* setTimeout(later, wait), called at time t: the earliest time later runs.
DueTime(t, wait) == t + wait

\* let timeout; no call has been made.
DebounceInit ==
  /\ Started(FALSE)
  /\ pager = NoPager
  /\ scans = NoScans
  /\ debouncer = [pc |-> "ready", now |-> 0, pending |-> FALSE, due |-> 0, args |-> "",
                  calls |-> <<>>, runs |-> <<>>]

\* executedFunction(...args): the pending timer is cleared and a new one is
\* set, whose callback holds the arguments of this call.
executedFunction(args) ==
  /\ debouncer.pc # "none"
  /\ Len(debouncer.calls) < MaxCalls
  /\ debouncer.now <= MaxTime
  /\ debouncer' = [debouncer EXCEPT
                     !.pending = TRUE,
                     !.due = DueTime(debouncer.now, Wait),
                     !.args = args,
                     !.calls = Append(@, [at |-> debouncer.now, args |-> args])]
  /\ UNCHANGED serverVarsAndPager

\* later(): the timer's callback runs func with the arguments it holds.
later ==
  /\ debouncer.pc # "none"
  /\ debouncer.pending
  /\ debouncer.now >= debouncer.due
  /\ debouncer' = [debouncer EXCEPT
                     !.pending = FALSE,
                     !.runs = Append(@, [at |-> debouncer.now, args |-> debouncer.args,
                                         after |-> Len(debouncer.calls)])]
  /\ UNCHANGED serverVarsAndPager

\* A quarter of a second passes.
DebounceTick ==
  /\ debouncer.pc # "none"
  /\ debouncer.now < MaxTime \/ (debouncer.pending /\ debouncer.now < debouncer.due)
  /\ debouncer' = [debouncer EXCEPT !.now = @ + 1]
  /\ UNCHANGED serverVarsAndPager

DebounceNext ==
  \/ \E args \in DebounceArgs : executedFunction(args)
  \/ later
  \/ DebounceTick

DebounceSpec == DebounceInit /\ [][DebounceNext]_vars

\* Time passes, and the browser runs the callback of a timer that is due.
DebounceFairSpec ==
  DebounceSpec /\ WF_vars(DebounceTick) /\ WF_vars(later)

(***************************************************************************)
(* Properties.                                                             *)
(***************************************************************************)
Range(seq) == {seq[i] : i \in DOMAIN seq}

InScan == handler \in {"scan", "cron"}

\* Every record the handler in flight has built, and the stored ones.
Seen ==
  {scanned[i].rec : i \in DOMAIN scanned} \cup Range(resources)
    \cup Range(unusedResources) \cup Range(longIdleResources)
    \cup Range(lastUnusedResources)

\* The mail errors, as opposed to the provider errors.
MailErrors == {"Missing email configuration in .env", "sendMail failed"}

\* C1: a running EC2 instance or an available RDS instance with 1-day average
\* CPU p is idle when p < 1, underutilized when 1 <= p < 10 and used when
\* p >= 10, in the fetch, in GET /api/scan and in the scheduled scan.
C1_CpuThresholds ==
  \A r \in Seen :
    (r.service = "ec2" /\ r.state = "running") \/ (r.service = "rds" /\ r.state = "available")
      => /\ r.avgCpu < 1 => r.usageStatus = "idle"
         /\ (1 <= r.avgCpu /\ r.avgCpu < 10) => r.usageStatus = "underutilized"
         /\ r.avgCpu >= 10 => r.usageStatus = "used"

\* C1 witness: the scheduled scan has classified an available database whose
\* CPU average is exactly 10 as used.
C1_Witness ==
  /\ handler = "cron"
  /\ pc = "done"
  /\ \E i \in DOMAIN scanned :
       /\ scanned[i].rec.service = "rds"
       /\ scanned[i].rec.state = "available"
       /\ scanned[i].rec.avgCpu = 10
       /\ scanned[i].rec.usageStatus = "used"

\* C2: every record of a scan's long-idle list was created strictly earlier
\* than 30 days before the scan; a resource created 5 days before the scan is
\* never in the list.
C2_LongIdleIsOlderThan30Days ==
  InScan =>
    \A i \in DOMAIN longIdleResources :
      /\ longIdleResources[i].creation < Now - 30
      /\ longIdleResources[i].creation # Now - 5

\* C2 witness: a scan has ended with a long-idle record.
C2_Witness ==
  /\ InScan
  /\ pc = "done"
  /\ response.error = ""
  /\ Len(longIdleResources) > 0

\* C3: a scan whose long-idle list is empty makes no sendNotification call and
\* hands nothing to the mail transport, and no mail error ends it, with or
\* without mail configuration.
C3_NoNotifierWithoutLongIdle ==
  (InScan /\ longIdleResources = <<>>) =>
    /\ notifierCalls = 0
    /\ outbox = <<>>
    /\ pc # "sending"
    /\ pc = "done" => response.error \notin MailErrors

\* C3 witness: without mail configuration, GET /api/scan has classified a
\* resource, found nothing long idle and answered 200.
C3_Witness ==
  /\ handler = "scan"
  /\ ~emailConfigured
  /\ pc = "done"
  /\ scanned # <<>>
  /\ longIdleResources = <<>>
  /\ response.status = 200

\* C4 as stated: when GET /api/scan fails at any step, it answers 500 with an
\* error payload and the stored list is the one from before the scan.
C4_FailedScanRetainsNothing ==
  (handler = "scan" /\ pc = "done" /\ response.error # "") =>
    /\ response.status = 500
    /\ response.body = [error |-> response.error]
    /\ lastUnusedResources = before

\* C4 amended: a failed GET /api/scan answers 500 with an error payload; the
\* stored list is the one from before the scan when a provider call failed,
\* and the scan's own complete unused list when only the notification failed.
C4_FailedScanRetainsOnlyAfterLoops ==
  (handler = "scan" /\ pc = "done" /\ response.error # "") =>
    /\ response.status = 500
    /\ response.body = [error |-> response.error]
    /\ response.error \notin MailErrors => lastUnusedResources = before
    /\ response.error \in MailErrors =>
         /\ lastUnusedResources = unusedResources
         /\ Len(longIdleResources) > 0

\* C4 witness: GET /api/scan had accumulated an unused record when a metric
\* query failed; it answered 500 and the stored list is still empty.
C4_Witness ==
  /\ handler = "scan"
  /\ pc = "done"
  /\ response.status = 500
  /\ response.error = "GetMetricData failed"
  /\ unusedResources # <<>>
  /\ lastUnusedResources = <<>>

C6_ManualSendWithoutConfigFails ==
  (handler = "send" /\ ~emailConfigured /\ lastUnusedResources = <<>>) =>
    /\ pc = "done"
    /\ response.status = 500
    /\ response.error # ""
    /\ response.body = [error |-> response.error]
    /\ outbox = <<>>

\* C6 witness: that request, before any scan has stored a list.
C6_Witness ==
  /\ handler = "send"
  /\ ~emailConfigured
  /\ lastUnusedResources = <<>>
  /\ lastScanList = <<>>
  /\ response.status = 500
  /\ notifierCalls = 1

UsageStatuses == {"used", "idle", "underutilized", "stopped"}

\* The records a handler returns: the fetch's resources, the scan's unused list.
Returned == Range(resources) \cup Range(unusedResources)

\* An instance or database in a lifecycle state the code has no branch for.
Unclassified(r) ==
  \/ (r.service = "ec2" /\ r.state \notin {"running", "stopped"})
  \/ (r.service = "rds" /\ r.state \notin {"available", "stopped"})

\* C7 as stated: every returned record has usageStatus used, idle,
\* underutilized or stopped, whatever state the provider reports.
C7_UsageStatusIsDerived ==
  \A r \in Returned : r.usageStatus \in UsageStatuses

\* C7 amended: every returned record has usageStatus used, idle, underutilized
\* or stopped, except an EC2 instance that is neither running nor stopped and
\* an RDS instance that is neither available nor stopped: its usageStatus is
\* the provider's state.
C7_UsageStatusIsDerivedOrPassedThrough ==
  \A r \in Returned :
    IF Unclassified(r) THEN r.usageStatus = r.state /\ r.usageStatus \notin UsageStatuses
    ELSE r.usageStatus \in UsageStatuses

\* C7 witness: GET /api/resources has returned a pending instance whose
\* usageStatus is pending.
C7_Witness ==
  /\ handler = "resources"
  /\ pc = "done"
  /\ response.status = 200
  /\ \E i \in DOMAIN response.body.resources :
       /\ response.body.resources[i].service = "ec2"
       /\ response.body.resources[i].state = "pending"
       /\ response.body.resources[i].usageStatus = "pending"

\* C8: a scan's unused list is, in order, the records it classified whose
\* usageStatus is not used, each once; GET /api/scan returns that list.
C8_UnusedIsExactlyTheNotUsed ==
  InScan =>
    /\ unusedResources =
         SelectSeq([i \in DOMAIN scanned |-> scanned[i].rec],
                   LAMBDA r : r.usageStatus # "used")
    /\ \A i, j \in DOMAIN unusedResources :
         unusedResources[i] = unusedResources[j] => i = j
    /\ (pc = "done" /\ response.status = 200)
         => response.body = [unusedResources |-> unusedResources]

\* C8 witness: GET /api/scan has answered with a list that holds an
\* underutilized record.
C8_Witness ==
  /\ handler = "scan"
  /\ pc = "done"
  /\ response.status = 200
  /\ \E i \in DOMAIN unusedResources : unusedResources[i].usageStatus = "underutilized"

\* C9 as stated: every record of a scan's long-idle list has usageStatus idle
\* or stopped and is in the unused list.
C9_LongIdleIsIdleOrStopped ==
  InScan =>
    \A r \in Range(longIdleResources) :
      r.usageStatus \in {"idle", "stopped"} /\ r \in Range(unusedResources)

\* C9 amended: a long-idle record that is a stopped instance or database has
\* usageStatus stopped, a long-idle volume has usageStatus idle, and every
\* long-idle record has a derived usageStatus; a long-idle record may be used
\* or underutilized, and then it is a running instance or available database
\* whose 30-day CPU average is below 1, or a function or bucket whose 30-day
\* aggregate is 0.
C9_LongIdleStatusFollowsKind ==
  InScan =>
    /\ Range(longIdleResources) \subseteq {scanned[i].rec : i \in DOMAIN scanned}
    /\ \A e \in Range(scanned) :
         e.rec \in Range(longIdleResources) =>
           /\ e.rec.usageStatus \in UsageStatuses
           /\ (e.rec.service \in {"ec2", "rds"} /\ e.rec.state = "stopped")
                => e.rec.usageStatus = "stopped"
           /\ e.rec.service = "ebs" => e.rec.usageStatus = "idle"
           /\ e.rec.usageStatus \in {"used", "underutilized"} =>
                \/ /\ e.rec.service = "ec2"
                   /\ e.rec.state = "running"
                   /\ e.long < 1
                \/ /\ e.rec.service = "rds"
                   /\ e.rec.state = "available"
                   /\ e.long < 1
                \/ /\ e.rec.service \in {"s3", "lambda"}
                   /\ e.rec.usageStatus = "used"
                   /\ e.long = 0

\* C9 witness: a scan has put a running instance that is currently used into
\* its long-idle list.
C9_Witness ==
  /\ InScan
  /\ pc = "done"
  /\ \E i \in DOMAIN longIdleResources :
       /\ longIdleResources[i].service = "ec2"
       /\ longIdleResources[i].usageStatus = "used"
       /\ longIdleResources[i].avgCpu >= 10

\* The 30-day aggregate of a classified record shows no activity: CPU average
\* below 1 for a running instance or available database, invocation sum 0 for a
\* function, average object count 0 for a bucket; a volume has no aggregate.
NoActivity30(e) ==
  CASE e.rec.service = "ec2" -> e.rec.state = "running" /\ e.long < 1
    [] e.rec.service = "rds" -> e.rec.state = "available" /\ e.long < 1
    [] e.rec.service = "lambda" -> e.long = 0
    [] e.rec.service = "s3" -> e.long = 0
    [] e.rec.service = "ebs" -> FALSE

IsStopped(r) == "state" \in DOMAIN r /\ r.state = "stopped"

\* C10 as stated: a classified resource is in the long-idle list exactly when
\* it was created earlier than 30 days ago and is stopped or shows no activity
\* in its 30-day aggregate, for all five kinds.
C10_LongIdleIffOldAndInactive ==
  InScan =>
    \A e \in Range(scanned) :
      e.rec \in Range(longIdleResources)
        <=> (e.rec.creation < Now - 30 /\ (IsStopped(e.rec) \/ NoActivity30(e)))

\* C10 amended: the same for instances, databases, functions and buckets; a
\* volume is in the long-idle list exactly when it was created earlier than 30
\* days ago and its state is available (no metric is read for it).
C10_LongIdleIffPerKindRule ==
  InScan =>
    \A e \in Range(scanned) :
      e.rec \in Range(longIdleResources)
        <=> /\ e.rec.creation < Now - 30
            /\ IF e.rec.service = "ebs" THEN e.rec.state = "available"
               ELSE IsStopped(e.rec) \/ NoActivity30(e)

\* C10 witness: a scan has put an available volume into its long-idle list.
C10_Witness ==
  /\ InScan
  /\ pc = "done"
  /\ \E i \in DOMAIN longIdleResources :
       /\ longIdleResources[i].service = "ebs"
       /\ longIdleResources[i].state = "available"


\* C11: an EC2 instance or RDS instance that the provider reports as stopped
\* has usageStatus stopped and monthlyCost 0 in every record a fetch or a scan
\* builds, returns or stores, in a region with a pricing location and in one
\* without.
C11_StoppedCostsNothing ==
  \A r \in Seen :
    (r.service \in {"ec2", "rds"} /\ r.state = "stopped")
      => r.usageStatus = "stopped" /\ r.monthlyCost = 0

\* C11 witness: GET /api/resources has returned a stopped database of a region
\* that has a pricing location, with a total cost of 0.
C11_Witness ==
  /\ handler = "resources"
  /\ pc = "done"
  /\ response.status = 200
  /\ response.body.totalCostEstimate = 0
  /\ \E i \in DOMAIN response.body.resources :
       /\ response.body.resources[i].service = "rds"
       /\ response.body.resources[i].region = "us-east-1"
       /\ response.body.resources[i].state = "stopped"
       /\ response.body.resources[i].monthlyCost = 0

\* The records of the handler in flight that the log entry e is about.
RecordsFor(e) ==
  {r \in Seen : r.service = e.service /\ r.region = e.region /\ Ident(r) = e.id}

\* The price lookups of the handler in flight that did not yield a price.
FailedLookups ==
  {i \in DOMAIN callLog :
     /\ callLog[i].api = "GetProducts"
     /\ callLog[i].answer \in {"throw", "empty", "garbled"}}

\* C12: when the pricing query throws, returns an empty price list or returns
\* an item that does not parse, getHourlyPrice returns 0 and does not throw:
\* no fetch, scan or scheduled scan ends with a pricing error, and the
\* resource the lookup was made for has monthlyCost 0.
C12_PricingFailureCostsNothing ==
  /\ response.error # "GetProducts failed"
  /\ \A i \in FailedLookups :
       /\ callLog[i].result = 0
       /\ RecordsFor(callLog[i]) # {}
       /\ \A r \in RecordsFor(callLog[i]) : r.monthlyCost = 0

\* C12 witness: the scheduled scan has run to its end although the pricing
\* query for a running instance threw.
C12_Witness ==
  /\ handler = "cron"
  /\ pc = "done"
  /\ response.error = ""
  /\ \E i \in FailedLookups :
       /\ callLog[i].answer = "throw"
       /\ callLog[i].service = "ec2"
       /\ \E r \in RecordsFor(callLog[i]) : r.state = "running" /\ r.monthlyCost = 0

\* C13: a price query is issued only for a resource of a region that has an
\* entry in regionToLocation; a running instance or available database of a
\* region without entry gets no price query and keeps monthlyCost 0.
C13_PriceLookupIsRegionGated ==
  /\ \A i \in DOMAIN callLog :
       callLog[i].api = "GetProducts" => callLog[i].region \in DOMAIN regionToLocation
  /\ \A r \in Seen :
       (r.service \in {"ec2", "rds"} /\ r.region \notin DOMAIN regionToLocation)
         => r.monthlyCost = 0

\* C13 witness: GET /api/resources has returned a running instance of
\* ap-south-1, which has no entry: its CPU was read, no price was asked for,
\* its cost is 0.
C13_Witness ==
  /\ handler = "resources"
  /\ pc = "done"
  /\ response.status = 200
  /\ "ap-south-1" \notin DOMAIN regionToLocation
  /\ \E r \in Range(resources) :
       /\ r.service = "ec2"
       /\ r.region = "ap-south-1"
       /\ r.state = "running"
       /\ r.monthlyCost = 0
  /\ \E i \in DOMAIN callLog :
       callLog[i].api = "GetMetricData" /\ callLog[i].region = "ap-south-1"
  /\ \A i \in DOMAIN callLog : callLog[i].api # "GetProducts"

\* The position of a call's (region, kind) pair in the order: regions sorted,
\* and within a region ec2, ebs, s3, rds, lambda.
ServiceIndex(service) == CHOOSE i \in DOMAIN Services : Services[i] = service
PairRank ==
  [r \in RegionSet, k \in {Services[i] : i \in DOMAIN Services} |->
     (RegionRank(r) - 1) * Len(Services) + ServiceIndex(k)]
PairIndex(e) == PairRank[e.region, e.service]

\* The listing calls of the handler in flight, in the order it made them.
ListingCalls ==
  SelectSeq(callLog, LAMBDA e : e.api \in {ListApi(Services[i]) : i \in DOMAIN Services})

\* The provider calls of the handler in flight (the mail transport apart).
ProviderCalls == SelectSeq(callLog, LAMBDA e : e.api # "sendMail")

\* C14: a scan first lists the regions; then its calls come pair by pair, the
\* pairs in the order regions sorted, kinds ec2, ebs, s3, rds, lambda, each
\* pair once and none left out, each pair starting with its listing (the one
\* listing call of the pair); the calls are made one after the other and each
\* call belongs to the pair of the call before it or opens the next pair, so a
\* call of a pair is made only after every call of the pairs before it.
C14_PairsInFixedOrder ==
  InScan =>
    LET made == ProviderCalls
        n == Len(made)
        pairsBegun == IF n < 2 THEN 0 ELSE PairIndex(made[n])
    IN /\ n > 0 => made[1].api = "DescribeRegions"
       /\ n > 1 => PairIndex(made[2]) = 1 /\ made[2].api = ListApi(made[2].service)
       /\ \A i \in 3..n :
            LET e == made[i]
                here == PairIndex(e)
                last == PairIndex(made[i - 1])
            IN IF e.api = ListApi(e.service)
               THEN here = last + 1
               ELSE here = last /\ e.api # "DescribeRegions"
       /\ pc = "loop" => pairsBegun = (ri - 1) * Len(Services) + si - 1
       /\ (pc = "done" /\ response.error = "") =>
            pairsBegun = Len(AllRegions) * Len(Services)

\* C14 witness: GET /api/scan has run to its end; it has made the ten listing
\* calls and, in between, metric queries for a bucket of us-east-1.
C14_Witness ==
  /\ handler = "scan"
  /\ pc = "done"
  /\ response.status = 200
  /\ Len(ListingCalls) = 10
  /\ \E i \in DOMAIN callLog :
       /\ callLog[i].api = "GetMetricData"
       /\ callLog[i].service = "s3"
       /\ callLog[i].region = "us-east-1"
       /\ callLog[i - 1].api = "GetMetricData"
       /\ callLog[i + 1].api = "DescribeDBInstances"

\* The times the handler in flight has awaited the mail transport.
MailCalls == SelectSeq(callLog, LAMBDA e : e.api = "sendMail")

\* C15: with mail configuration present a call of the notifier hands exactly
\* one message to the mail transport, holding the whole list it was given,
\* and the transport is awaited once: when it fails nothing is sent again and
\* the caller ends with that error (GET handlers answer 500, the cron job
\* logs it).  With mail configuration absent the call fails with the
\* configuration error and hands nothing to the transport.
C15_OneMessagePerNotifierCall ==
  /\ Len(MailCalls) <= Len(outbox)
  /\ emailConfigured =>
       /\ Len(outbox) = notifierCalls
       /\ \A i \in DOMAIN outbox :
            outbox[i] = MailOptions(IF handler = "send" THEN lastUnusedResources
                                    ELSE longIdleResources, handler = "send")
       /\ \A i \in DOMAIN MailCalls :
            ~MailCalls[i].ok =>
              /\ pc = "done"
              /\ response.error = "sendMail failed"
              /\ response.status = IF handler = "cron" THEN 0 ELSE 500
              /\ Len(outbox) = 1
              /\ Len(MailCalls) = 1
  /\ (~emailConfigured /\ notifierCalls > 0) =>
       /\ outbox = <<>>
       /\ pc = "done"
       /\ response.error = "Missing email configuration in .env"
       /\ response.status = IF handler = "cron" THEN 0 ELSE 500

\* C15 witness: GET /api/scan called the notifier with a long-idle record, the
\* transport failed, and the scan answered 500 having handed over one message
\* with that record.
C15_Witness ==
  /\ handler = "scan"
  /\ emailConfigured
  /\ pc = "done"
  /\ response.status = 500
  /\ notifierCalls = 1
  /\ Len(MailCalls) = 1
  /\ ~MailCalls[1].ok
  /\ Len(longIdleResources) = 1
  /\ outbox = <<MailOptions(longIdleResources, FALSE)>>

\* The records of all the pages, in page order.
RECURSIVE Concat(_)
Concat(pages) == IF pages = <<>> THEN <<>> ELSE Head(pages) \o Concat(Tail(pages))

\* C16 as stated: for instances, volumes, database instances and functions,
\* paginateDescribe requests the pages one after the other, each once, and
\* when it returns it has requested every page and returns the records of all
\* pages, each once, in page order.
C16_EveryPageOnceInOrder ==
  /\ pager.pc # "none" =>
       /\ Len(pager.requested) <= Len(pager.pages)
       /\ pager.requested = [i \in 1..Len(pager.requested) |-> i]
  /\ pager.pc = "returned" =>
       /\ Len(pager.requested) = Len(pager.pages)
       /\ pager.results = Concat(pager.pages)

\* C17 as stated: when the access key or secret, or the mail user, password
\* or recipient is absent, the process never gets past its start: it serves no
\* request and runs no scheduled scan.
C17_AnyAbsentConfigurationExits ==
  (~credentials \/ ~emailConfigured) => pc \in {"boot", "exited"}

\* C17, amended: when the access key or secret is absent the process exits at
\* start and serves nothing; it exits for no other reason, so with credentials
\* present and the mail configuration absent it serves requests and scheduled
\* scans.
C17_AbsentCredentialsExit ==
  /\ ~credentials =>
       /\ pc \in {"boot", "exited"}
       /\ handler = "none"
       /\ response = NoResponse
       /\ notifierCalls = 0
  /\ credentials => pc # "exited"

C17_Witness == ~credentials /\ pc = "exited"

\* C18: a failure in the scheduled scan (region listing, enumeration, metric
\* query, mail configuration or delivery) ends that run in its catch block:
\* the message is logged, no response is produced, the process is not ended,
\* and the callback returns to the state where the next scheduled run and the
\* HTTP requests are accepted.
C18_FailedScheduledScanIsContained ==
  /\ (handler = "cron" /\ response.error # "") =>
       /\ pc = "done"
       /\ response.status = 0
       /\ ENABLED Return
  /\ pc = "exited" => handler = "none"
  /\ pc = "idle" =>
       /\ ENABLED ScanStart("cron")
       /\ ENABLED ScanStart("scan")
       /\ ENABLED SendEmail
       /\ ENABLED FetchStart("all", "all")

C18_Witness ==
  /\ handler = "cron"
  /\ pc = "done"
  /\ response.error \in {"DescribeRegions failed", "sendMail failed"}

\* The bucket location lookups of the handler in flight.
LocationLookups == {i \in DOMAIN callLog : callLog[i].api = "GetBucketLocation"}

\* The causes a handler can end with an error for; a bucket location lookup
\* is not among them.
OtherFailures ==
  {"", "Invalid service", "DescribeRegions failed", "listing failed",
   "GetMetricData failed"} \cup MailErrors

RECURSIVE SumOf(_)
SumOf(values) ==
  IF values = <<>> THEN 0
  ELSE values[Len(values)] + SumOf(SubSeq(values, 1, Len(values) - 1))

\* The metric queries of the handler in flight.
MetricQueries == {i \in DOMAIN callLog : callLog[i].api = "GetMetricData"}

\* The 1-day query of the metric that decides the usageStatus of record r.
DecidingQueries(r) ==
  {i \in MetricQueries :
     /\ callLog[i].service = r.service
     /\ callLog[i].region = r.region
     /\ callLog[i].id = Ident(r)
     /\ callLog[i].days = 1
     /\ callLog[i].metricName \in {"CPUUtilization", "NumberOfObjects", "Invocations"}}

\* C20: getMetric returns 0 when the query returns no sample; otherwise the
\* sum of the samples for Sum and their mean (here its integer part) for
\* Average.  A running instance, an available database, a bucket or a
\* function whose deciding 1-day query returned no sample is idle.
C20_MetricIsSumOrMean ==
  \A i \in DOMAIN callLog :
    LET e == callLog[i] IN
    e.api = "GetMetricData" =>
      LET n == Len(e.values)
          total == SumOf(e.values)
      IN /\ n = 0 => e.result = 0
         /\ e.stat = "Sum" => e.result = total
         /\ (e.stat = "Average" /\ n > 0) =>
              /\ e.result * n <= total
              /\ total < (e.result + 1) * n
         /\ n = 0 =>
              \A r \in Seen : i \in DecidingQueries(r) => r.usageStatus = "idle"

\* C20 witness: a scan has returned a running instance whose 1-day CPU query
\* had no sample, classified idle.
C20_Witness ==
  /\ InScan
  /\ \E r \in Seen :
       /\ r.service = "ec2"
       /\ r.state = "running"
       /\ r.usageStatus = "idle"
       /\ \E i \in DecidingQueries(r) : callLog[i].values = <<>>

\* The metric queries made for record r with the given lookback (days).
QueriesFor(r, days) ==
  {i \in MetricQueries :
     /\ callLog[i].days = days
     /\ callLog[i].service = r.service
     /\ callLog[i].region = r.region
     /\ callLog[i].id = Ident(r)}

\* A record for which the scan reads metrics: a running instance, an available
\* database, a function, a bucket of the region.
IsLive(r) ==
  \/ r.service = "ec2" /\ r.state = "running"
  \/ r.service = "rds" /\ r.state = "available"
  \/ r.service \in {"s3", "lambda"}

\* C21: GET /api/resources makes no 30-day metric query, does not call the
\* notifier and leaves the stored list as it found it; in a scan every running
\* instance, available database, function and bucket of the region has
\* exactly one 30-day query besides its 1-day query or queries, and a stopped
\* instance or database has no metric query.
C21_LookbackOnlyInScan ==
  /\ handler = "resources" =>
       /\ \A i \in MetricQueries : callLog[i].days = 1
       /\ \A i \in DOMAIN callLog : callLog[i].api # "sendMail"
       /\ notifierCalls = 0
       /\ outbox = <<>>
       /\ lastUnusedResources = before
  /\ InScan =>
       \A k \in DOMAIN scanned :
         LET r == scanned[k].rec IN
         /\ IsLive(r) =>
              /\ Cardinality(QueriesFor(r, 30)) = 1
              /\ QueriesFor(r, 1) # {}
         /\ (r.service \in {"ec2", "rds"} /\ r.state = "stopped") =>
              QueriesFor(r, 30) \cup QueriesFor(r, 1) = {}

\* C21 witness: a scan has come to its end with a running instance that got
\* its 1-day and its 30-day query.
C21_Witness ==
  /\ InScan
  /\ pc = "done"
  /\ \E k \in DOMAIN scanned :
       /\ scanned[k].rec.service = "ec2"
       /\ scanned[k].rec.state = "running"
       /\ Cardinality(QueriesFor(scanned[k].rec, 30)) = 1
       /\ Cardinality(QueriesFor(scanned[k].rec, 1)) = 1

\* The 1-day queries of a metric made for record r.
NamedQueries(r, metricName) ==
  {i \in QueriesFor(r, 1) : callLog[i].metricName = metricName}

\* C22: a function record has the sum of its 1-day Invocations query as
\* invocations; with invocations 0 it is idle, costs 0 and no Duration query is
\* made; with invocations > 0 it is used, one Duration query is made and the
\* cost is (invocations * 0.0000002 + avgDuration/1000 * invocations *
\* memory/1024 * 0.0000166667) * 30 (in units of 0.0000001 USD), which is not 0.
C22_FunctionCost ==
  \A r \in Seen :
    r.service = "lambda" =>
      LET durations == NamedQueries(r, "Duration") IN
      /\ \A i \in NamedQueries(r, "Invocations") : callLog[i].result = r.invocations
      /\ NamedQueries(r, "Invocations") # {}
      /\ (r.monthlyCost = 0) <=> (r.invocations = 0)
      /\ (r.usageStatus = "used") <=> (r.invocations > 0)
      /\ r.usageStatus \in {"used", "idle"}
      /\ r.invocations = 0 => durations = {}
      /\ r.invocations > 0 =>
           /\ Cardinality(durations) = 1
           /\ \A i \in durations :
                LET gbS == (callLog[i].result * r.invocations * r.memory) \div 1024000
                IN r.monthlyCost = (r.invocations * 2 + (gbS * 166667) \div 1000) * 30

\* C22 witness: a function with 1000 invocations of 200 ms at 512 MB: 100 GB-s.
C22_Witness ==
  \E r \in Seen :
    /\ r.service = "lambda"
    /\ r.invocations = 1000
    /\ r.usageStatus = "used"
    /\ r.monthlyCost = 559980
    /\ NamedQueries(r, "Duration") # {}

\* The per-GB rates of C23, in units of 0.0000001 USD.
StatedRate(type) ==
  CASE type = "gp2" -> 1000000
    [] type = "gp3" -> 800000
    [] type = "io1" -> 1250000
    [] type = "st1" -> 450000
    [] type = "sc1" -> 250000

\* C23: the table gives gp2 0.10, gp3 0.08, io1 0.125, st1 0.045, sc1 0.025;
\* every volume record costs size times the rate of its type, 0.10 for a type
\* that is not in the table, and is used when in-use and idle otherwise, in
\* the fetch and in the scans.
C23_VolumeCost ==
  /\ \A t \in {"gp2", "gp3", "io1", "st1", "sc1"} : typePrices(t) = StatedRate(t)
  /\ \A r \in Seen :
       r.service = "ebs" =>
         /\ r.monthlyCost =
              r.size * (IF r.type \in {"gp2", "gp3", "io1", "st1", "sc1"}
                        THEN StatedRate(r.type) ELSE 1000000)
         /\ r.usageStatus = (IF r.state = "in-use" THEN "used" ELSE "idle")

\* C23 witness: a 100 GB volume of type io2, which is not in the table, is
\* returned at 10.00, in a state other than in-use, as idle.
C23_Witness ==
  \E r \in Seen :
    /\ r.service = "ebs"
    /\ r.size = 100
    /\ r.type = "io2"
    /\ r.monthlyCost = 100000000
    /\ r.state = "creating"
    /\ r.usageStatus = "idle"

\* C25 as stated: GET /api/resources never takes the region value all for the
\* name of a region; for one kind as for all kinds it works on the regions of
\* the region listing only.
C25_AllIsNeverARegionName ==
  (handler = "resources" /\ \A i \in DOMAIN services : services[i] \in Range(Services))
    => \A i \in DOMAIN regions : regions[i] \in RegionSet

\* The sum of monthlyCost over a list of records, from the last record down.
RECURSIVE CostOf(_)
CostOf(list) ==
  IF list = <<>> THEN 0
  ELSE list[Len(list)].monthlyCost + CostOf(SubSeq(list, 1, Len(list) - 1))

\* C26: while GET /api/resources collects its records the running total is
\* the sum of their monthlyCost, and the successful response carries that
\* list and that sum.
C26_TotalIsSumOfReturnedCosts ==
  handler = "resources" =>
    /\ totalCostEstimate = CostOf(resources)
    /\ (pc = "done" /\ response.status = 200) =>
         /\ response.body.resources = resources
         /\ response.body.totalCostEstimate = CostOf(response.body.resources)

\* C26 witness: a request for all kinds and regions has returned a record with
\* a cost, and the total is that cost.
C26_Witness ==
  /\ handler = "resources"
  /\ pc = "done"
  /\ response.status = 200
  /\ Len(services) = Len(Services)
  /\ Len(regions) = Len(AllRegions)
  /\ response.body.resources # <<>>
  /\ response.body.totalCostEstimate > 0

\* The handlers that answer an HTTP request.
HttpHandlers == {"regions", "resources", "scan", "send"}

\* A kind that fetchServiceResources has no case for.
UnknownKind == \E i \in DOMAIN services : services[i] \notin Range(Services)

\* C27: GET /api/resources with a kind other than ec2, ebs, s3, rds, lambda
\* and all ends with HTTP 500, an error payload and no resources; every HTTP
\* handler answers once, when it ends and not before, with status 200 and no
\* error or with status 500 and an error message.
C27_OneResponsePerRequest ==
  /\ (handler = "resources" /\ UnknownKind) =>
       /\ resources = <<>>
       /\ pc = "done" =>
            /\ response.status = 500
            /\ response.body = [error |-> "Invalid service"]
  /\ handler \in HttpHandlers =>
       /\ pc # "done" => response = NoResponse
       /\ pc = "done" =>
            \/ response.status = 200 /\ response.error = ""
                 /\ "error" \notin DOMAIN response.body
            \/ response.status = 500 /\ response.error # ""
                 /\ response.body = [error |-> response.error]

\* C27 witness: a request for a kind without a case has been answered 500.
C27_Witness ==
  /\ handler = "resources"
  /\ UnknownKind
  /\ pc = "done"
  /\ response.status = 500
  /\ response.body = [error |-> "Invalid service"]

\* The invocations that have come to their end without error.
Succeeded(i) == scans.slot[i].pc = "done" /\ scans.slot[i].response.error = ""

\* Each scan has pushed the unused records the provider handed to it, and no
\* other; a response carries the complete list of its own scan; the stored
\* list is empty or the complete list of one scan.
OwnListsOnly ==
  /\ \A i \in ScanSlots :
       /\ scans.slot[i].unusedResources = scans.slot[i].gathered
       /\ (Succeeded(i) /\ scans.slot[i].kind = "scan") =>
            /\ scans.slot[i].response.body.unusedResources = scans.slot[i].gathered
            /\ scans.slot[i].k = PairCount
  /\ \/ lastUnusedResources = <<>>
     \/ \E i \in ScanSlots :
          scans.slot[i].stored /\ lastUnusedResources = scans.slot[i].gathered

\* C24 as stated: overlapping scans keep their own lists, and the stored list
\* is that of the scan that finished last.
C24_StoredListIsOfLastFinished ==
  /\ OwnListsOnly
  /\ (scans.lastFinished # 0 /\ Succeeded(scans.lastFinished)) =>
       lastUnusedResources = scans.slot[scans.lastFinished].gathered

\* C24, amended: overlapping scans keep their own lists, and the stored list
\* is that of the scan that assigned it last, that is, whose loop ended last;
\* a scan that awaits its notification while another scan stores ends later
\* without storing again.
C24_StoredListIsOfLastStore ==
  /\ OwnListsOnly
  /\ scans.lastStore = 0 => lastUnusedResources = <<>>
  /\ scans.lastStore # 0 =>
       /\ scans.slot[scans.lastStore].stored
       /\ lastUnusedResources = scans.slot[scans.lastStore].gathered

\* C24 witness: the first scan stored its list and awaited its notification;
\* meanwhile the second stored another list and ended; then the first ended.
C24_Witness ==
  /\ Succeeded(1)
  /\ Succeeded(2)
  /\ scans.lastStore = 2
  /\ scans.lastFinished = 1
  /\ scans.slot[1].gathered # scans.slot[2].gathered
  /\ lastUnusedResources = scans.slot[2].gathered

\* What has to hold of the runs of func at every moment: a run has the
\* arguments of the last call made before it and comes at least Wait after
\* that call; no two runs follow the same call; no run comes between two
\* calls that are less than Wait apart.
DebounceSafe ==
  LET calls == debouncer.calls
      runs == debouncer.runs
  IN /\ \A j \in DOMAIN runs :
          /\ runs[j].after \in DOMAIN calls
          /\ runs[j].args = calls[runs[j].after].args
          /\ runs[j].at >= calls[runs[j].after].at + Wait
          /\ \A k \in DOMAIN runs : k # j => runs[k].after # runs[j].after
     /\ \A k \in 1..(Len(calls) - 1) :
          calls[k + 1].at - calls[k].at < Wait =>
            \A j \in DOMAIN runs : runs[j].after # k

\* C28: for a burst of calls less than Wait apart func runs once, with the
\* arguments of the last call and not before Wait has passed since that call;
\* func does not run for a call when a newer call has been made; every call
\* is eventually followed by a run of func.
C28_DebounceRunsOncePerBurst ==
  /\ []DebounceSafe
  /\ \A n \in 1..MaxCalls :
       (Len(debouncer.calls) >= n)
         ~> (\E j \in DOMAIN debouncer.runs : debouncer.runs[j].after >= n)

\* C28 witness: three calls, each less than Wait after the one before, the
\* first and the last with different arguments, and one run after them.
C28_Witness ==
  /\ Len(debouncer.calls) = 3
  /\ \A k \in 1..2 : debouncer.calls[k + 1].at - debouncer.calls[k].at < Wait
  /\ debouncer.calls[1].at < debouncer.calls[3].at
  /\ debouncer.calls[1].args # debouncer.calls[3].args
  /\ Len(debouncer.runs) = 1
  /\ debouncer.runs[1].args = debouncer.calls[3].args

====
